---- MODULE Spec2Model ----
(***************************************************************************)
(* Static analyses of the Oblibeny deploy-time subset: phase separation,   *)
(* call-graph construction and cycle detection, termination checking and   *)
(* worst-case resource analysis, composed by ProgramAnalysis::analyze.     *)
(* The analyses are pure functions of the parsed top-level sequence; the   *)
(* state machine draws a program and runs the aggregate analysis or one    *)
(* command of the command-line tool on it.  result holds what a command    *)
(* other than the aggregate analysis reports.                              *)
(***************************************************************************)
EXTENDS Integers, Sequences, FiniteSets, TLC

VARIABLES exprs, pc, phase_check, termination_check, resource_bounds, call_graph,
          result

vars == <<exprs, pc, phase_check, termination_check, resource_bounds, call_graph,
          result>>

(***************************************************************************)
(* Bounds of the model.                                                    *)
(***************************************************************************)
\* Nesting depth of the generated sub-expressions below a top-level form.
MaxDepth == 2
\* Number of deploy functions in the generated call-graph programs.
MaxFuncs == 2

(***************************************************************************)
(* AST (ast/expr.rs).  One record shape per variant of Expr.               *)
(***************************************************************************)
IntLit(n) == [kind |-> "Int", val |-> n]
Bool(b) == [kind |-> "Bool", b |-> b]
Ident(name) == [kind |-> "Ident", name |-> name]
DefunDeploy(name, params, body) ==
    [kind |-> "DefunDeploy", name |-> name, params |-> params, body |-> body]
BoundedFor(var, start, end, body) ==
    [kind |-> "BoundedFor", var |-> var, start |-> start, end |-> end, body |-> body]
WithCapability(capability, body) ==
    [kind |-> "WithCapability", capability |-> capability, body |-> body]
DefunCompile(name, body) == [kind |-> "DefunCompile", name |-> name, body |-> body]
Macro(name, body) == [kind |-> "Macro", name |-> name, body |-> body]
EvalCompile(e) == [kind |-> "EvalCompile", arg |-> e]
Include(path) == [kind |-> "Include", path |-> path]
For(var, iterable, body) ==
    [kind |-> "For", var |-> var, iterable |-> iterable, body |-> body]
While(condition, body) == [kind |-> "While", condition |-> condition, body |-> body]
Let(bindings, body) == [kind |-> "Let", bindings |-> bindings, body |-> body]
Set(var, value) == [kind |-> "Set", var |-> var, value |-> value]
If(condition, then_branch, else_branch) ==
    [kind |-> "If", condition |-> condition, then_branch |-> then_branch,
     else_branch |-> else_branch]
FunctionCall(func, args) == [kind |-> "FunctionCall", func |-> func, args |-> args]
ArrayLiteral(size) == [kind |-> "ArrayLiteral", size |-> size]
ArrayGet(array, index) == [kind |-> "ArrayGet", array |-> array, index |-> index]
ArraySet(array, index, value) ==
    [kind |-> "ArraySet", array |-> array, index |-> index, value |-> value]
ArrayLength(e) == [kind |-> "ArrayLength", arg |-> e]
GpioSet(device, value) == [kind |-> "GpioSet", device |-> device, value |-> value]
GpioGet(device) == [kind |-> "GpioGet", device |-> device]
SensorRead(device) == [kind |-> "SensorRead", device |-> device]
NetworkSend(device, data) == [kind |-> "NetworkSend", device |-> device, data |-> data]
SleepMs(e) == [kind |-> "SleepMs", arg |-> e]
ResourceSpec(rkind, amount) == [rkind |-> rkind, amount |-> amount]
ResourceBudget(specs) == [kind |-> "ResourceBudget", specs |-> specs]
Program(name, budget, forms) ==
    [kind |-> "Program", name |-> name, budget |-> budget, forms |-> forms]

\* Result values: Ok(v), Err(kind, payload).
Ok(v) == [tag |-> "Ok", val |-> v]
Err(k, payload) == [tag |-> "Err", err |-> k, payload |-> payload]
IsOk(r) == r.tag = "Ok"
IsErr(r) == r.tag = "Err"

\* Option<T>.
Some(v) == [some |-> TRUE, v |-> v]
None == [some |-> FALSE]

(* Integer widths.  u64 and i64 are modelled with WordBits bits instead of *)
(* 64, the widest TLC's integers hold   : u64 is 0..u64_MAX and i64   *)
(* is i64_MIN..i64_MAX in two's complement.  An addition, subtraction or   *)
(* multiplication whose exact result leaves the range panics in a build    *)
(* with overflow checks (the dev and test profiles) and wraps in a build   *)
(* without them (the release profile); an `as` cast always wraps.  The     *)
(* operators below compute the wrapped value and record in `overflowed`    *)
(* that an operation on the way left the range.                            *)
WordBits == 30
u64_MODULUS == 2 ^ WordBits
u64_MAX == u64_MODULUS - 1
i64_MAX == 2 ^ (WordBits - 1) - 1
i64_MIN == -(2 ^ (WordBits - 1))

\* `x as u64` of a signed value.
as_u64(n) == n % u64_MODULUS

\* x + y on u64.
add_overflows(x, y) == x + y > u64_MAX
wrapping_add(x, y) == (x + y) % u64_MODULUS

\* x * y on u64, the product formed from half words.
half_MODULUS == 2 ^ (WordBits \div 2)
mul_overflows(x, y) == x # 0 /\ y > u64_MAX \div x
wrapping_mul(x, y) ==
    LET x1 == x \div half_MODULUS
        x0 == x % half_MODULUS
        y1 == y \div half_MODULUS
        y0 == y % half_MODULUS
        cross == (((x1 * y0) % half_MODULUS) + ((x0 * y1) % half_MODULUS)) % half_MODULUS
    IN ((cross * half_MODULUS) + (x0 * y0)) % u64_MODULUS

\* e - s on i64.
sub_overflows(e, s) == e - s > i64_MAX \/ e - s < i64_MIN
wrapping_sub(e, s) == ((e - s - i64_MIN) % u64_MODULUS) + i64_MIN

(***************************************************************************)
(* The sub-expression structure of Expr: every Expr-typed field of each    *)
(* variant.                                                                *)
(***************************************************************************)
Reverse(seq) == [k \in 1..Len(seq) |-> seq[Len(seq) + 1 - k]]

Range(seq) == {seq[i] : i \in 1..Len(seq)}

Children(e) ==
    CASE e.kind \in {"DefunDeploy", "DefunCompile", "Macro"} -> Range(e.body)
      [] e.kind = "BoundedFor" -> {e.start, e.end} \cup Range(e.body)
      [] e.kind = "WithCapability" -> {e.capability} \cup Range(e.body)
      [] e.kind \in {"EvalCompile", "ArrayLength", "SleepMs"} -> {e.arg}
      [] e.kind = "For" -> {e.iterable} \cup Range(e.body)
      [] e.kind = "While" -> {e.condition} \cup Range(e.body)
      [] e.kind = "Let" -> {e.bindings[i][2] : i \in 1..Len(e.bindings)} \cup Range(e.body)
      [] e.kind = "Set" -> {e.value}
      [] e.kind = "If" -> {e.condition, e.then_branch, e.else_branch}
      [] e.kind = "FunctionCall" -> {e.func} \cup Range(e.args)
      [] e.kind = "ArrayGet" -> {e.array, e.index}
      [] e.kind = "ArraySet" -> {e.array, e.index, e.value}
      [] e.kind = "GpioSet" -> {e.device, e.value}
      [] e.kind \in {"GpioGet", "SensorRead"} -> {e.device}
      [] e.kind = "NetworkSend" -> {e.device, e.data}
      [] e.kind = "Program" -> {e.budget} \cup Range(e.forms)
      [] OTHER -> {}

\* Every node strictly below e.
RECURSIVE Descendants(_)
Descendants(e) == Children(e) \cup UNION {Descendants(c) : c \in Children(e)}

\* The top-level DefunDeploy forms of a program.
DeployFunctions(es) == {es[i] : i \in {j \in 1..Len(es) : es[j].kind = "DefunDeploy"}}

(***************************************************************************)
(* Expr::is_compile_only and Expr::phase (ast/expr.rs).                    *)
(***************************************************************************)
CompileOnlyKinds == {"DefunCompile", "Macro", "EvalCompile", "Include", "For", "While"}

is_compile_only(expr) == expr.kind \in CompileOnlyKinds

\* i is the index of the body element the loop is at.
RECURSIVE phase(_), phase_body_mixed(_, _), phase_call(_, _, _)
phase_body_mixed(body, i) ==
    IF i > Len(body) THEN "Deploy"
    ELSE IF phase(body[i]) = "Compile" THEN "Mixed"
    ELSE phase_body_mixed(body, i + 1)

phase_call(args, i, ph) ==
    IF i > Len(args) THEN ph
    ELSE LET arg_phase == phase(args[i]) IN
         IF arg_phase = "Mixed" THEN "Mixed"
         ELSE phase_call(args, i + 1, IF arg_phase = "Compile" THEN "Compile" ELSE ph)

phase(expr) ==
    CASE expr.kind \in CompileOnlyKinds -> "Compile"
      [] expr.kind \in {"DefunDeploy", "BoundedFor"} -> phase_body_mixed(expr.body, 1)
      [] expr.kind = "Let" ->
            LET phases == {phase(expr.body[i]) : i \in 1..Len(expr.body)} IN
            IF "Compile" \in phases THEN "Compile"
            ELSE IF "Mixed" \in phases THEN "Mixed"
            ELSE "Deploy"
      [] expr.kind = "If" ->
            LET phases == {phase(expr.condition), phase(expr.then_branch),
                           phase(expr.else_branch)} IN
            IF "Mixed" \in phases THEN "Mixed"
            ELSE IF "Compile" \in phases THEN "Compile"
            ELSE "Deploy"
      [] expr.kind = "FunctionCall" -> phase_call(expr.args, 1, phase(expr.func))
      [] OTHER -> "Deploy"

(***************************************************************************)
(* PhaseSeparator (phases/separator.rs).                                   *)
(***************************************************************************)
\* The context string of CompileInDeploy for a DefunDeploy body.
in_function(name) == "in function " \o name

RECURSIVE PhaseSeparator_analyze(_), analyze_body(_, _, _), analyze_seq(_, _)
\* `for e in body { if is_compile_only(e) { return Err(ctx) } analyze(e)?; }`
analyze_body(body, i, ctx) ==
    IF i > Len(body) THEN Ok("Deploy")
    ELSE IF is_compile_only(body[i]) THEN Err("CompileInDeploy", ctx)
    ELSE LET r == PhaseSeparator_analyze(body[i]) IN
         IF IsErr(r) THEN r ELSE analyze_body(body, i + 1, ctx)

\* `for e in es { analyze(e)?; }`
analyze_seq(es, i) ==
    IF i > Len(es) THEN Ok("Deploy")
    ELSE LET r == PhaseSeparator_analyze(es[i]) IN
         IF IsErr(r) THEN r ELSE analyze_seq(es, i + 1)

PhaseSeparator_analyze(expr) ==
    CASE expr.kind = "DefunDeploy" -> analyze_body(expr.body, 1, in_function(expr.name))
      [] expr.kind \in CompileOnlyKinds -> Ok("Compile")
      [] expr.kind = "BoundedFor" -> analyze_body(expr.body, 1, "in bounded-for loop")
      [] expr.kind = "WithCapability" ->
            analyze_body(expr.body, 1, "in with-capability block")
      [] expr.kind = "Let" ->
            LET rb == analyze_seq([i \in 1..Len(expr.bindings) |-> expr.bindings[i][2]], 1)
                r == IF IsErr(rb) THEN rb ELSE analyze_seq(expr.body, 1)
            IN IF IsErr(r) THEN r
               ELSE IF "Compile" \in {phase(expr.body[i]) : i \in 1..Len(expr.body)}
                    THEN Ok("Compile")
                    ELSE Ok("Deploy")
      [] expr.kind = "If" ->
            analyze_seq(<<expr.condition, expr.then_branch, expr.else_branch>>, 1)
      [] expr.kind = "FunctionCall" -> analyze_seq(<<expr.func>> \o expr.args, 1)
      [] OTHER -> Ok("Deploy")

\* Analyzes every top-level form, not only the deploy functions.
validate_deploy_phase_all(es) ==
    LET r == analyze_seq(es, 1) IN IF IsErr(r) THEN r ELSE Ok("unit")

\* A variant that reports the failure of the last failing deploy function.
validate_deploy_phase_last_failure(es) ==
    LET r == analyze_seq(Reverse(SelectSeq(es, LAMBDA e : e.kind = "DefunDeploy")), 1)
    IN IF IsErr(r) THEN r ELSE Ok("unit")

validate_deploy_phase(es) ==
    LET r == analyze_seq(SelectSeq(es, LAMBDA e : e.kind = "DefunDeploy"), 1)
    IN IF IsErr(r) THEN r ELSE Ok("unit")

(***************************************************************************)
(* CallGraph (analyzer/call_graph.rs).  graph: DiGraph<String, ()> is the  *)
(* sequence of node weights (a node's index is its NodeIndex) and the      *)
(* sequence of edges <<from, to>> in insertion order; node_map is the      *)
(* name -> index table, here the position of the name in nodes.            *)
(***************************************************************************)
CallGraph_new == [nodes |-> <<>>, edges |-> <<>>]

contains_key(cg, name) == \E i \in 1..Len(cg.nodes) : cg.nodes[i] = name

node_map_get(cg, name) == CHOOSE i \in 1..Len(cg.nodes) : cg.nodes[i] = name

\* A variant that adds a node at every call.
add_function_unconditionally(cg, name) == [cg EXCEPT !.nodes = Append(@, name)]

add_function(cg, name) ==
    IF ~contains_key(cg, name)
    THEN [cg EXCEPT !.nodes = Append(@, name)]
    ELSE cg

add_call(cg, caller, callee) ==
    LET g == add_function(cg, callee) IN
    IF contains_key(g, caller) /\ contains_key(g, callee)
    THEN [g EXCEPT !.edges = Append(@, <<node_map_get(g, caller), node_map_get(g, callee)>>)]
    ELSE g

RECURSIVE collect_calls(_), collect_calls_seq(_, _)
\* The calls pushed while visiting es[i..], in order.
collect_calls_seq(es, i) ==
    IF i > Len(es) THEN <<>>
    ELSE collect_calls(es[i]) \o collect_calls_seq(es, i + 1)

collect_calls(expr) ==
    CASE expr.kind = "FunctionCall" ->
            (IF expr.func.kind = "Ident" THEN <<expr.func.name>> ELSE <<>>)
            \o collect_calls_seq(expr.args, 1)
      [] expr.kind = "BoundedFor" -> collect_calls_seq(expr.body, 1)
      [] expr.kind = "Let" ->
            collect_calls_seq([i \in 1..Len(expr.bindings) |-> expr.bindings[i][2]], 1)
            \o collect_calls_seq(expr.body, 1)
      [] expr.kind = "If" ->
            collect_calls_seq(<<expr.condition, expr.then_branch, expr.else_branch>>, 1)
      [] expr.kind = "WithCapability" -> collect_calls_seq(expr.body, 1)
      [] OTHER -> <<>>

extract_function_calls(es) == collect_calls_seq(es, 1)

RECURSIVE build_nodes(_, _, _), build_calls(_, _, _, _), build_edges(_, _, _)
\* First pass: add all function nodes.
build_nodes(es, i, cg) ==
    IF i > Len(es) THEN cg
    ELSE build_nodes(es, i + 1,
                     IF es[i].kind = "DefunDeploy" THEN add_function(cg, es[i].name) ELSE cg)

\* `for called in calls { cg.add_call(name, called) }`
build_calls(name, calls, j, cg) ==
    IF j > Len(calls) THEN cg
    ELSE build_calls(name, calls, j + 1, add_call(cg, name, calls[j]))

\* Second pass: add edges for function calls.
build_edges(es, i, cg) ==
    IF i > Len(es) THEN cg
    ELSE build_edges(es, i + 1,
                     IF es[i].kind = "DefunDeploy"
                     THEN build_calls(es[i].name, extract_function_calls(es[i].body), 1, cg)
                     ELSE cg)

\* A variant that builds the graph of the forms of a leading Program envelope.
build_inside_envelope(es) ==
    LET forms == IF es # <<>> /\ es[1].kind = "Program" THEN es[1].forms ELSE es
    IN build_edges(forms, 1, build_nodes(forms, 1, CallGraph_new))

build(es) == build_edges(es, 1, build_nodes(es, 1, CallGraph_new))

function_count(cg) == Len(cg.nodes)

\* Successor node indices of u, one per outgoing edge, the edge added last
\* first (the order petgraph's Graph::neighbors walks the edge list).
neighbors(cg, u) ==
    LET out == SelectSeq(cg.edges, LAMBDA e : e[1] = u)
    IN [k \in 1..Len(out) |-> out[Len(out) + 1 - k][2]]

(* petgraph::algo::is_cyclic_directed: a depth-first search from every     *)
(* node that reports a cycle on the first back edge, an edge to a node     *)
(* that is discovered and not yet finished.                                *)
RECURSIVE dfs_visit(_, _, _), dfs_neighbors(_, _, _, _), dfs_roots(_, _, _)
dfs_neighbors(cg, succs, k, st) ==
    IF k > Len(succs) \/ st.cyclic THEN st
    ELSE LET v == succs[k] IN
         IF v \in st.finished THEN dfs_neighbors(cg, succs, k + 1, st)
         ELSE IF v \in st.discovered THEN [st EXCEPT !.cyclic = TRUE]
         ELSE dfs_neighbors(cg, succs, k + 1, dfs_visit(cg, v, st))

dfs_visit(cg, u, st) ==
    LET st1 == dfs_neighbors(cg, neighbors(cg, u), 1,
                             [st EXCEPT !.discovered = @ \cup {u}])
    IN IF st1.cyclic THEN st1 ELSE [st1 EXCEPT !.finished = @ \cup {u}]

dfs_roots(cg, u, st) ==
    IF u > Len(cg.nodes) \/ st.cyclic THEN st
    ELSE dfs_roots(cg, u + 1, IF u \in st.discovered THEN st ELSE dfs_visit(cg, u, st))

is_cyclic_directed(cg) ==
    dfs_roots(cg, 1, [discovered |-> {}, finished |-> {}, cyclic |-> FALSE]).cyclic

\* Detects direct recursion only.
has_cycles_direct_only(cg) == \E i \in 1..Len(cg.edges) : cg.edges[i][1] = cg.edges[i][2]

has_cycles(cg) == is_cyclic_directed(cg)

(* petgraph::algo::toposort(&graph, None).  First pass: from every node not *)
(* yet discovered, highest index first, an explicit-stack depth-first      *)
(* search that pushes the undiscovered successors of a node when it is     *)
(* first met and records the node in finish_stack when it is met again; a  *)
(* self-loop is a Cycle error.  The reversed finish_stack is the order.    *)
(* Second pass: walking the order, a search of the reversed graph from     *)
(* each node that discovers more than the node itself is a Cycle error.    *)
RECURSIVE toposort_push(_, _, _, _), toposort_stack(_, _), toposort_roots(_, _, _)
\* `for succ in g.neighbors(nx) { if succ == nx { return Err } if !discovered(succ) { push } }`
toposort_push(succs, k, nx, st) ==
    IF k > Len(succs) THEN st
    ELSE IF succs[k] = nx THEN [st EXCEPT !.cycle = TRUE]
    ELSE toposort_push(succs, k + 1, nx,
            IF succs[k] \in st.discovered THEN st
            ELSE [st EXCEPT !.stack = Append(@, succs[k])])

\* `while let Some(&nx) = dfs.stack.last() { ... }`
toposort_stack(cg, st) ==
    IF st.cycle \/ st.stack = <<>> THEN st
    ELSE LET nx == st.stack[Len(st.stack)] IN
         IF nx \notin st.discovered
         THEN toposort_stack(cg, toposort_push(neighbors(cg, nx), 1, nx,
                                    [st EXCEPT !.discovered = @ \cup {nx}]))
         ELSE toposort_stack(cg,
                [st EXCEPT !.stack = SubSeq(@, 1, Len(@) - 1),
                           !.finished = @ \cup {nx},
                           !.finish_stack = IF nx \in st.finished THEN @ ELSE Append(@, nx)])

\* `for i in g.node_identifiers().rev() { if discovered(i) { continue } push(i); ... }`
toposort_roots(cg, i, st) ==
    IF i < 1 \/ st.cycle THEN st
    ELSE toposort_roots(cg, i - 1,
            IF i \in st.discovered THEN st
            ELSE toposort_stack(cg, [st EXCEPT !.stack = <<i>>]))

\* The nodes a search of the reversed graph started at the nodes S discovers,
\* the nodes of D being discovered already.
RECURSIVE reversed_dfs(_, _, _)
reversed_dfs(cg, S, D) ==
    LET new == S \ D
        preds == {cg.edges[k][1] : k \in {j \in 1..Len(cg.edges) : cg.edges[j][2] \in new}}
    IN IF new = {} THEN {} ELSE new \cup reversed_dfs(cg, preds, D \cup new)

\* `for &i in &finish_stack { dfs.move_to(i); ... while let Some(j) = dfs.next(Reversed(g)) }`
RECURSIVE toposort_check(_, _, _, _)
toposort_check(cg, order, k, D) ==
    IF k > Len(order) THEN FALSE
    ELSE LET found == reversed_dfs(cg, {order[k]}, D) IN
         IF Cardinality(found) > 1 THEN TRUE
         ELSE toposort_check(cg, order, k + 1, D \cup found)

\* Ok(order) or Err("Cycle", "").
toposort(cg) ==
    LET st == toposort_roots(cg, Len(cg.nodes),
                  [stack |-> <<>>, discovered |-> {}, finished |-> {},
                   finish_stack |-> <<>>, cycle |-> FALSE])
        order == Reverse(st.finish_stack)
    IN IF st.cycle THEN Err("Cycle", "")
       ELSE IF toposort_check(cg, order, 1, {}) THEN Err("Cycle", "")
       ELSE Ok(order)

\* The node names in finishing order, not reversed.
topological_order_finish_order(cg) ==
    IF has_cycles(cg) THEN None
    ELSE LET r == toposort(cg) IN
         IF IsOk(r) THEN Some([k \in 1..Len(r.val) |-> cg.nodes[Reverse(r.val)[k]]]) ELSE None

\* `.ok().map(|order| order.into_iter().map(|idx| self.graph[idx].clone()).collect())`
topological_order(cg) ==
    IF has_cycles(cg) THEN None
    ELSE LET r == toposort(cg) IN
         IF IsOk(r) THEN Some([k \in 1..Len(r.val) |-> cg.nodes[r.val[k]]]) ELSE None

(***************************************************************************)
(* TerminationChecker (analyzer/termination.rs).                           *)
(***************************************************************************)
are_bounds_finite(start, end) == start.kind = "Int" /\ end.kind = "Int"

\* The bare variable name as payload.
unknown_bounds_var_only(var) == var

\* The payload of UnknownBounds: format!("bounded-for {}", var).
unknown_bounds_payload(var) == "bounded-for " \o var

RECURSIVE check_loops(_), check_loops_seq(_, _)
\* `for e in es { self.check_loops(e)?; }`
check_loops_seq(es, i) ==
    IF i > Len(es) THEN Ok("unit")
    ELSE LET r == check_loops(es[i]) IN
         IF IsErr(r) THEN r ELSE check_loops_seq(es, i + 1)

check_loops(expr) ==
    CASE expr.kind = "While" -> Err("UnboundedLoop", "while loop")
      [] expr.kind = "For" -> Err("UnboundedLoop", "for loop")
      [] expr.kind = "BoundedFor" ->
            IF ~are_bounds_finite(expr.start, expr.end)
            THEN Err("UnknownBounds", unknown_bounds_payload(expr.var))
            ELSE check_loops_seq(expr.body, 1)
      [] expr.kind = "DefunDeploy" -> check_loops_seq(expr.body, 1)
      [] expr.kind = "Let" ->
            LET rb == check_loops_seq([i \in 1..Len(expr.bindings) |-> expr.bindings[i][2]], 1)
            IN IF IsErr(rb) THEN rb ELSE check_loops_seq(expr.body, 1)
      [] expr.kind = "If" ->
            check_loops_seq(<<expr.condition, expr.then_branch, expr.else_branch>>, 1)
      [] expr.kind = "WithCapability" -> check_loops_seq(expr.body, 1)
      [] expr.kind = "FunctionCall" -> check_loops_seq(<<expr.func>> \o expr.args, 1)
      [] OTHER -> Ok("unit")

\* Some(v) or None, with the overflow record of the subtraction `e - s`.
loop_ranking_function(start, end) ==
    IF start.kind = "Int" /\ end.kind = "Int"
    THEN IF end.val >= start.val
         THEN [some |-> TRUE, v |-> as_u64(wrapping_sub(end.val, start.val)),
               overflowed |-> sub_overflows(end.val, start.val)]
         ELSE [some |-> TRUE, v |-> 0, overflowed |-> FALSE]
    ELSE [some |-> FALSE, overflowed |-> FALSE]

\* The loops are checked before the call graph.
check_terminates_loops_first(es) ==
    LET r == check_loops_seq(es, 1) IN
    IF IsErr(r) THEN r
    ELSE IF has_cycles(build(es)) THEN Err("Recursion", "") ELSE r

\* A variant that checks the loops of the deploy functions only.
check_terminates_deploy_only(es) ==
    IF has_cycles(build(es)) THEN Err("Recursion", "")
    ELSE check_loops_seq(SelectSeq(es, LAMBDA e : e.kind = "DefunDeploy"), 1)

\* TerminationChecker::new(exprs).check_terminates(exprs)
check_terminates(es) ==
    IF has_cycles(build(es)) THEN Err("Recursion", "")
    ELSE check_loops_seq(es, 1)

(***************************************************************************)
(* ResourceBounds and ResourceAnalyzer (analyzer/resources.rs).            *)
(***************************************************************************)
ResourceBounds_new ==
    [time_ms |-> 0, memory_bytes |-> 0, network_bytes |-> 0, storage_bytes |-> 0,
     overflowed |-> FALSE]

add(a, b) ==
    [time_ms |-> wrapping_add(a.time_ms, b.time_ms),
     memory_bytes |-> wrapping_add(a.memory_bytes, b.memory_bytes),
     network_bytes |-> wrapping_add(a.network_bytes, b.network_bytes),
     storage_bytes |-> wrapping_add(a.storage_bytes, b.storage_bytes),
     overflowed |-> \/ a.overflowed
                    \/ b.overflowed
                    \/ add_overflows(a.time_ms, b.time_ms)
                    \/ add_overflows(a.memory_bytes, b.memory_bytes)
                    \/ add_overflows(a.network_bytes, b.network_bytes)
                    \/ add_overflows(a.storage_bytes, b.storage_bytes)]

max_u64(x, y) == IF x >= y THEN x ELSE y

max(a, b) ==
    [time_ms |-> max_u64(a.time_ms, b.time_ms),
     memory_bytes |-> max_u64(a.memory_bytes, b.memory_bytes),
     network_bytes |-> max_u64(a.network_bytes, b.network_bytes),
     storage_bytes |-> max_u64(a.storage_bytes, b.storage_bytes),
     overflowed |-> a.overflowed \/ b.overflowed]

multiply(a, factor) ==
    [time_ms |-> wrapping_mul(a.time_ms, factor),
     memory_bytes |-> wrapping_mul(a.memory_bytes, factor),
     network_bytes |-> wrapping_mul(a.network_bytes, factor),
     storage_bytes |-> wrapping_mul(a.storage_bytes, factor),
     overflowed |-> \/ a.overflowed
                    \/ mul_overflows(a.time_ms, factor)
                    \/ mul_overflows(a.memory_bytes, factor)
                    \/ mul_overflows(a.network_bytes, factor)
                    \/ mul_overflows(a.storage_bytes, factor)]

\* `bounds.time_ms += cost`
add_time(bounds, cost) ==
    [bounds EXCEPT !.time_ms = wrapping_add(@, cost),
                   !.overflowed = @ \/ add_overflows(bounds.time_ms, cost)]

fits_within(a, budget) ==
    /\ a.time_ms <= budget.time_ms
    /\ a.memory_bytes <= budget.memory_bytes
    /\ a.network_bytes <= budget.network_bytes
    /\ a.storage_bytes <= budget.storage_bytes

\* ResourceAnalyzer::new: the operation cost table.
costs ==
    [name \in {"add", "sub", "mul", "div", "mod", "array-access", "gpio", "uart",
               "sensor", "network", "sleep"} |->
        CASE name \in {"add", "sub", "array-access"} -> 1
          [] name = "mul" -> 2
          [] name \in {"div", "mod"} -> 10
          [] name = "gpio" -> 100
          [] name = "uart" -> 200
          [] name = "sensor" -> 500
          [] name = "network" -> 1000
          [] name = "sleep" -> 0]

costs_get(name) == IF name \in DOMAIN costs THEN Some(costs[name]) ELSE None

\* Some(v) with the overflow record of the subtraction that made v.
SomeDiff(s, e) ==
    IF e >= s
    THEN [some |-> TRUE, v |-> as_u64(wrapping_sub(e, s)), overflowed |-> sub_overflows(e, s)]
    ELSE [some |-> TRUE, v |-> 0, overflowed |-> FALSE]

NoDiff == [some |-> FALSE, overflowed |-> FALSE]

eval_const_diff(start, end) ==
    IF start.kind = "Int" /\ end.kind = "Int" THEN SomeDiff(start.val, end.val) ELSE NoDiff

unwrap_or(opt, default) == IF opt.some THEN opt.v ELSE default

time_only(t) == [ResourceBounds_new EXCEPT !.time_ms = t]

\* If: `bounds = analyze(condition); bounds.max(then); bounds.max(else)`.
if_bounds(c, t, e) == max(max(c, t), e)

RECURSIVE ResourceAnalyzer_analyze(_), analyze_sum(_, _, _)
\* `for expr in es { bounds.add(&self.analyze(expr)); }` starting from acc.
analyze_sum(es, i, acc) ==
    IF i > Len(es) THEN acc
    ELSE analyze_sum(es, i + 1, add(acc, ResourceAnalyzer_analyze(es[i])))

ResourceAnalyzer_analyze(expr) ==
    CASE expr.kind \in {"Int", "Float", "Bool", "String", "Ident"} -> time_only(1)
      [] expr.kind = "BoundedFor" ->
            LET diff == eval_const_diff(expr.start, expr.end)
                iterations == unwrap_or(diff, 100)
                body_bounds == analyze_sum(expr.body, 1, ResourceBounds_new)
            IN multiply([body_bounds EXCEPT !.overflowed = @ \/ diff.overflowed], iterations)
      [] expr.kind = "Let" ->
            analyze_sum(expr.body, 1,
                analyze_sum([i \in 1..Len(expr.bindings) |-> expr.bindings[i][2]], 1,
                            ResourceBounds_new))
      [] expr.kind = "If" ->
            if_bounds(ResourceAnalyzer_analyze(expr.condition),
                      ResourceAnalyzer_analyze(expr.then_branch),
                      ResourceAnalyzer_analyze(expr.else_branch))
      [] expr.kind = "FunctionCall" ->
            LET bounds == analyze_sum(expr.args, 1, time_only(10))
                cost == IF expr.func.kind = "Ident" THEN costs_get(expr.func.name) ELSE None
            IN IF cost.some THEN add_time(bounds, cost.v) ELSE bounds
      [] expr.kind \in {"GpioSet", "GpioGet"} -> time_only(unwrap_or(costs_get("gpio"), 100))
      [] expr.kind = "SensorRead" -> time_only(unwrap_or(costs_get("sensor"), 500))
      [] expr.kind = "NetworkSend" ->
            [time_only(unwrap_or(costs_get("network"), 1000)) EXCEPT !.network_bytes = 256]
      [] expr.kind = "SleepMs" ->
            IF expr.arg.kind = "Int" THEN time_only(as_u64(expr.arg.val)) ELSE time_only(1000)
      [] expr.kind = "ArrayGet" ->
            LET bounds == add(ResourceAnalyzer_analyze(expr.array),
                              ResourceAnalyzer_analyze(expr.index))
            IN add_time(bounds, unwrap_or(costs_get("array-access"), 1))
      [] expr.kind = "ArraySet" ->
            LET bounds == add(add(ResourceAnalyzer_analyze(expr.array),
                                  ResourceAnalyzer_analyze(expr.index)),
                              ResourceAnalyzer_analyze(expr.value))
            IN add_time(bounds, unwrap_or(costs_get("array-access"), 1))
      [] expr.kind = "ArrayLiteral" ->
            [ResourceBounds_new EXCEPT !.memory_bytes = wrapping_mul(expr.size, 8),
                                       !.overflowed = mul_overflows(expr.size, 8)]
      [] expr.kind \in {"WithCapability", "DefunDeploy"} ->
            analyze_sum(expr.body, 1, ResourceBounds_new)
      [] OTHER -> ResourceBounds_new

RECURSIVE specs_to_bounds(_, _, _), extract_budget_from(_, _)
specs_to_bounds(specs, i, bounds) ==
    IF i > Len(specs) THEN bounds
    ELSE specs_to_bounds(specs, i + 1,
            CASE specs[i].rkind = "TimeMs" -> [bounds EXCEPT !.time_ms = specs[i].amount]
              [] specs[i].rkind = "MemoryBytes" ->
                    [bounds EXCEPT !.memory_bytes = specs[i].amount]
              [] specs[i].rkind = "NetworkBytes" ->
                    [bounds EXCEPT !.network_bytes = specs[i].amount]
              [] specs[i].rkind = "StorageBytes" ->
                    [bounds EXCEPT !.storage_bytes = specs[i].amount])

extract_budget_from(es, i) ==
    IF i > Len(es) THEN None
    ELSE IF es[i].kind = "Program" /\ es[i].budget.kind = "ResourceBudget"
         THEN Some(specs_to_bounds(es[i].budget.specs, 1, ResourceBounds_new))
    ELSE IF es[i].kind # "Program" /\ es[i].kind = "ResourceBudget"
         THEN Some(specs_to_bounds(es[i].specs, 1, ResourceBounds_new))
    ELSE extract_budget_from(es, i + 1)

\* A variant that looks at bare ResourceBudget forms only.
extract_budget_bare_forms_only(es) ==
    extract_budget_from(SelectSeq(es, LAMBDA e : e.kind # "Program"), 1)

extract_budget(es) == extract_budget_from(es, 1)

(***************************************************************************)
(* ProgramAnalysis (lib.rs).                                               *)
(***************************************************************************)
\* `for expr in &exprs { if DefunDeploy { resource_bounds.add(analyze(expr)) } }`
total_bounds(es) ==
    analyze_sum(SelectSeq(es, LAMBDA e : e.kind = "DefunDeploy"), 1, ResourceBounds_new)

\* A variant that looks at the phase verdict only.
is_valid_phase_only == IsOk(phase_check)

is_valid == IsOk(phase_check) /\ IsOk(termination_check)

(***************************************************************************)
(* Input programs.  A program is the top-level sequence parse_file         *)
(* returns; the families below enumerate the shapes the analyses           *)
(* distinguish.                                                            *)
(***************************************************************************)
Cores ==
    { IntLit(1), Ident("n"),
      While(Bool(TRUE), <<IntLit(1)>>),
      For("x", Ident("xs"), <<IntLit(1)>>),
      Include("lib"),
      EvalCompile(IntLit(1)),
      DefunCompile("c", <<IntLit(1)>>),
      Macro("m", <<IntLit(1)>>),
      BoundedFor("i", IntLit(0), IntLit(2), <<IntLit(1)>>),
      BoundedFor("i", IntLit(0), Ident("n"), <<IntLit(1)>>),
      BoundedFor("j", Ident("n"), IntLit(2), <<IntLit(1)>>),
      FunctionCall(Ident("f"), <<>>),
      GpioSet(IntLit(1), IntLit(0)),
      SensorRead(IntLit(2)) }

Wrappers ==
    { "LetBinding", "LetBody", "IfCond", "IfThen", "IfElse", "CallArg", "CallFunc",
      "ForBody", "CapBody", "SetValue", "ArrayGetIndex", "SleepMs", "WhileBody",
      "DefunCompileBody", "NestedDeploy" }

\* The expression with e as one direct sub-expression, at the place w names.
Wrap(w, e) ==
    CASE w = "LetBinding" -> Let(<< <<"x", e>> >>, <<Ident("x")>>)
      [] w = "LetBody" -> Let(<< <<"total", IntLit(0)>> >>, <<e, Ident("total")>>)
      [] w = "IfCond" -> If(e, IntLit(1), IntLit(1))
      [] w = "IfThen" -> If(Bool(TRUE), e, IntLit(1))
      [] w = "IfElse" -> If(Bool(TRUE), IntLit(1), e)
      [] w = "CallArg" -> FunctionCall(Ident("add"), <<IntLit(1), e>>)
      [] w = "CallFunc" -> FunctionCall(e, <<>>)
      [] w = "ForBody" -> BoundedFor("k", IntLit(0), IntLit(3), <<e>>)
      [] w = "CapBody" -> WithCapability(Ident("gpio-cap"), <<e>>)
      [] w = "SetValue" -> Set("x", e)
      [] w = "ArrayGetIndex" -> ArrayGet(Ident("arr"), e)
      [] w = "SleepMs" -> SleepMs(e)
      [] w = "WhileBody" -> While(Bool(TRUE), <<e>>)
      [] w = "DefunCompileBody" -> DefunCompile("c", <<e>>)
      [] w = "NestedDeploy" -> DefunDeploy("inner", <<>>, <<e>>)

\* The wrappers from the outermost to the innermost, at most MaxDepth of them.
WrapperPaths == UNION {[1..d -> Wrappers] : d \in 0..MaxDepth}

\* e wrapped by path[i..], path[i] outermost.
RECURSIVE WrapPath(_, _, _)
WrapPath(path, i, e) ==
    IF i > Len(path) THEN e ELSE Wrap(path[i], WrapPath(path, i + 1, e))

\* The cores, bare and under one wrapper.
ShallowExprs == Cores \cup {Wrap(w, e) : w \in Wrappers, e \in Cores}

\* (defun-deploy sum-range (n) : int32
\*   (let ((total 0)) (bounded-for i 0 n (set total (+ total i))) total))
test_bounded_loop ==
    << DefunDeploy("sum-range", <<"n">>,
         << Let(<< <<"total", IntLit(0)>> >>,
                << BoundedFor("i", IntLit(0), Ident("n"),
                      << Set("total", FunctionCall(Ident("+"),
                                                   <<Ident("total"), Ident("i")>>)) >>),
                   Ident("total") >>) >>) >>

\* (defun-deploy add (a b) : int32 (+ a b))
test_simple_program ==
    << DefunDeploy("add", <<"a", "b">>,
                   <<FunctionCall(Ident("+"), <<Ident("a"), Ident("b")>>)>>) >>

\* S4: (defun-deploy f () (while true (sleep-ms 10)))
scenario_S4 ==
    << DefunDeploy("f", <<>>, <<While(Bool(TRUE), <<SleepMs(IntLit(10))>>)>>) >>

\* S5: (defun-deploy g (n) (bounded-for i 0 n (sleep-ms 1)))
scenario_S5 ==
    << DefunDeploy("g", <<"n">>,
                   <<BoundedFor("i", IntLit(0), Ident("n"), <<SleepMs(IntLit(1))>>)>>) >>

\* S6: a deploy function whose body is (if true (gpio-set 1 0) (sensor-read 2))
scenario_S6 ==
    << DefunDeploy("f", <<>>,
                   <<If(Bool(TRUE), GpioSet(IntLit(1), IntLit(0)), SensorRead(IntLit(2)))>>) >>

\* Compile-time forms at top level, beside a deploy function.
TopLevelCompile ==
    { DefunCompile("c", <<While(Bool(TRUE), <<IntLit(1)>>)>>),
      Macro("m", <<Include("lib")>>),
      While(Bool(TRUE), <<IntLit(1)>>),
      Include("lib") }

Budgets ==
    { ResourceBudget(<<ResourceSpec("TimeMs", t)>>) : t \in {0, 1, 1000} }
    \cup { ResourceBudget(<<ResourceSpec("TimeMs", 1000), ResourceSpec("NetworkBytes", nb)>>) :
             nb \in {0, 256} }

\* Deploy functions whose bounds leave the u64 range: a loop over the whole
\* i64 range, and a sleep of a negative literal followed by one more form.
OverflowPrograms ==
    { <<DefunDeploy("f", <<>>,
            <<BoundedFor("i", IntLit(0), IntLit(i64_MAX), <<SensorRead(IntLit(2))>>)>>)>>,
      <<DefunDeploy("f", <<>>,
            <<BoundedFor("i", IntLit(-1), IntLit(i64_MAX), <<IntLit(1)>>)>>)>>,
      <<DefunDeploy("f", <<>>, <<SleepMs(IntLit(-1)), IntLit(1)>>)>> }

\* One expression, as the body of a deploy function or as a top-level form.
NestedPrograms(path, core) ==
    { <<DefunDeploy("f", <<"n">>, <<WrapPath(path, 1, core)>>)>>,
      <<WrapPath(path, 1, core)>> }

\* Two body elements, two deploy functions, a budget or a compile-time form
\* beside a deploy function, and the programs of the tests and scenarios.
OtherPrograms ==
    { <<DefunDeploy("f", <<"n">>, <<a, b>>)>> : a, b \in Cores }
    \cup { <<DefunDeploy("g", <<"n">>, <<a>>), DefunDeploy("f", <<"n">>, <<b>>)>> :
             a, b \in Cores }
    \cup { <<b, DefunDeploy("f", <<"n">>, <<e>>)>> :
             b \in Budgets, e \in Cores \cup {NetworkSend(IntLit(1), IntLit(2))} }
    \cup { <<c, DefunDeploy("f", <<"n">>, <<e>>)>> : c \in TopLevelCompile, e \in ShallowExprs }
    \cup { <<DefunDeploy("f", <<"n">>, <<e>>), c>> : c \in TopLevelCompile, e \in Cores }
    \cup { test_bounded_loop, test_simple_program, scenario_S4, scenario_S5, scenario_S6 }
    \cup OverflowPrograms

\* Call-graph programs: deploy functions FuncNames[1..MaxFuncs], each calling a
\* subset of the callees, either directly or from the value of a Set.
FuncNames == <<"A", "B", "C", "D">>
Functions == {FuncNames[i] : i \in 1..MaxFuncs}
Callees == Functions \cup {"add"}
CallSites == {"direct", "twice", "set"}

\* A call to callee: alone, with a second call to it as argument, or as the
\* value of a Set.
call_site(site, callee) ==
    CASE site = "direct" -> FunctionCall(Ident(callee), <<IntLit(1)>>)
      [] site = "twice" -> FunctionCall(Ident(callee), <<FunctionCall(Ident(callee), <<>>)>>)
      [] site = "set" -> Set("x", FunctionCall(Ident(callee), <<>>))

\* One call to each callee of the set, in the order of a fixed enumeration.
RECURSIVE calls_to(_, _)
calls_to(site, callees) ==
    IF callees = {} THEN <<>>
    ELSE LET c == CHOOSE x \in callees : TRUE
         IN <<call_site(site, c)>> \o calls_to(site, callees \ {c})

GraphBodies == {calls_to(site, cs) : site \in CallSites, cs \in SUBSET Callees}

GraphPrograms ==
    { [i \in 1..MaxFuncs |-> DefunDeploy(FuncNames[i], <<>>, bodies[i])] :
        bodies \in [1..MaxFuncs -> GraphBodies] }

\* Two deploy functions of the same name.
RepeatedNamePrograms ==
    { <<DefunDeploy("A", <<>>, b1), DefunDeploy("A", <<>>, b2)>> : b1, b2 \in GraphBodies }

(***************************************************************************)
(* The state machine.                                                      *)
(***************************************************************************)
Pending == [tag |-> "Pending"]

Unanalyzed ==
    /\ pc = "parsed"
    /\ phase_check = Pending
    /\ termination_check = Pending
    /\ resource_bounds = ResourceBounds_new
    /\ call_graph = CallGraph_new
    /\ result = Pending

Init ==
    /\ \/ \E path \in WrapperPaths, core \in Cores : exprs \in NestedPrograms(path, core)
       \/ exprs \in OtherPrograms
    /\ Unanalyzed

InitGraph ==
    /\ exprs \in GraphPrograms \cup RepeatedNamePrograms
    /\ Unanalyzed

\* What a call that panicked leaves in place of a value.
Panicked == [tag |-> "Panicked"]

\* An Option<u64> as the caller receives it.
returned_option(r, overflow_checks) ==
    IF overflow_checks /\ r.overflowed THEN Panicked
    ELSE IF r.some THEN Some(r.v) ELSE None

\* A ResourceBounds as the caller receives it: the panic, or the four numbers.
returned_bounds(r, overflow_checks) ==
    IF overflow_checks /\ r.overflowed THEN Panicked ELSE [r EXCEPT !.overflowed = FALSE]

\* ProgramAnalysis::analyze, after parse_file.  In a build with overflow
\* checks an overflow of the resource arithmetic panics and nothing is
\* returned; in a build without them the wrapped bounds are returned.
Analyze ==
    /\ pc = "parsed"
    /\ \E overflow_checks \in BOOLEAN :
          LET bounds == returned_bounds(total_bounds(exprs), overflow_checks) IN
          IF bounds = Panicked
          THEN /\ pc' = "panicked"
               /\ UNCHANGED <<phase_check, termination_check, resource_bounds, call_graph>>
          ELSE /\ phase_check' = validate_deploy_phase(exprs)
               /\ termination_check' = check_terminates(exprs)
               /\ resource_bounds' = bounds
               /\ call_graph' = build(exprs)
               /\ pc' = "done"
    /\ UNCHANGED <<exprs, result>>

Next == Analyze

\* Commands::CallGraph, text format: builds the graph and prints the
\* topological order, if there is one.
CallGraphCmd ==
    /\ pc = "parsed"
    /\ call_graph' = build(exprs)
    /\ result' = [op |-> "call-graph", order |-> topological_order(build(exprs))]
    /\ pc' = "printed"
    /\ UNCHANGED <<exprs, phase_check, termination_check, resource_bounds>>

\* The states std's RandomState can give the hasher of a HashMap in one run.
HashSeeds == {1, 2}

\* A variant that lists the functions in the iteration order of node_map,
\* which follows the hasher.
analysis_run_in_map_order(es, seed, overflow_checks) ==
    [phase_check |-> validate_deploy_phase(es),
     termination_check |-> check_terminates(es),
     resource_bounds |-> returned_bounds(total_bounds(es), overflow_checks),
     order |-> IF has_cycles(build(es)) THEN None
               ELSE Some(IF seed = 1 THEN build(es).nodes ELSE Reverse(build(es).nodes))]

\* What one run of build, validate_deploy_phase, check_terminates and analyze
\* yields on es, in a run whose HashMaps (node_map, costs) hash with seed: the
\* maps are only inserted into and looked up by key, never iterated, so no
\* result depends on the seed.
analysis_run(es, seed, overflow_checks) ==
    [phase_check |-> validate_deploy_phase(es),
     termination_check |-> check_terminates(es),
     resource_bounds |-> returned_bounds(total_bounds(es), overflow_checks),
     order |-> topological_order(build(es))]

\* Two runs of the same build on the same program.
AnalyzeTwice ==
    /\ pc = "parsed"
    /\ \E seed1, seed2 \in HashSeeds, overflow_checks \in BOOLEAN :
          result' = [op |-> "twice", seeds |-> <<seed1, seed2>>,
                     first |-> analysis_run(exprs, seed1, overflow_checks),
                     second |-> analysis_run(exprs, seed2, overflow_checks)]
    /\ pc' = "returned"
    /\ UNCHANGED <<exprs, phase_check, termination_check, resource_bounds, call_graph>>

NextGraph == Analyze \/ CallGraphCmd \/ AnalyzeTwice

\* Literal loop bounds: the ends of the i64 range and values near zero.
BoundLiterals == {i64_MIN, -1, 0, 1, 2, i64_MAX}
BoundExprs == {IntLit(n) : n \in BoundLiterals} \cup {Ident("n"), Ident("m")}

InitLib ==
    /\ exprs = <<>>
    /\ Unanalyzed

\* A call of TerminationChecker::loop_ranking_function(start, end).
LoopRankingFunction ==
    /\ pc = "parsed"
    /\ \E start, end \in BoundExprs, overflow_checks \in BOOLEAN :
          result' = [op |-> "loop_ranking_function", start |-> start, end |-> end,
                     value |-> returned_option(loop_ranking_function(start, end),
                                               overflow_checks)]
    /\ pc' = "returned"
    /\ UNCHANGED <<exprs, phase_check, termination_check, resource_bounds, call_graph>>

\* Expressions without sub-expressions of their own cost: each kind of I/O
\* and array form, and sleeps of a small, a negative, the largest and a
\* non-literal duration.
Leaves ==
    { IntLit(1), Ident("n"),
      GpioSet(IntLit(1), IntLit(0)),
      SensorRead(IntLit(2)),
      NetworkSend(IntLit(1), IntLit(2)),
      ArrayLiteral(4),
      SleepMs(IntLit(5)), SleepMs(IntLit(-1)), SleepMs(IntLit(i64_MAX)), SleepMs(Ident("n")) }

\* Sequences of at most two leaves: loop bodies and argument lists.
LeafSeqs == UNION {[1..n -> Leaves] : n \in 0..2}

LoopExprs == {BoundedFor("i", s, e, body) : s, e \in BoundExprs, body \in LeafSeqs}

\* The called expressions: the names of the cost table, names outside it and
\* expressions that are not identifiers.
CalledExprs ==
    {Ident(name) : name \in DOMAIN costs \cup {"f", "+"}}
    \cup {IntLit(1), FunctionCall(Ident("gpio"), <<>>)}

CallExprs == {FunctionCall(func, args) : func \in CalledExprs, args \in LeafSeqs}

\* A leaf, a small loop or a small call in every position of every form.
WrappedExprs ==
    {Wrap(w, e) : w \in Wrappers,
                  e \in Leaves \cup {BoundedFor("i", IntLit(0), IntLit(2), <<SensorRead(IntLit(2))>>),
                                     BoundedFor("i", IntLit(2), IntLit(2), <<SensorRead(IntLit(2))>>),
                                     FunctionCall(Ident("mul"), <<ArrayLiteral(4)>>)}}

AnalyzeInputs == Leaves \cup LoopExprs \cup CallExprs \cup WrappedExprs

\* A call of ResourceAnalyzer::analyze(expr).
AnalyzeExpr ==
    /\ pc = "parsed"
    /\ \E expr \in AnalyzeInputs, overflow_checks \in BOOLEAN :
          result' = [op |-> "analyze", expr |-> expr,
                     value |-> returned_bounds(ResourceAnalyzer_analyze(expr), overflow_checks)]
    /\ pc' = "returned"
    /\ UNCHANGED <<exprs, phase_check, termination_check, resource_bounds, call_graph>>

\* Operands of the ResourceBounds operations: small values and values at the
\* top of the u64 range.
SampleBounds ==
    { [time_ms |-> t, memory_bytes |-> m, network_bytes |-> 256, storage_bytes |-> 0,
       overflowed |-> FALSE] : t \in {0, 1, 5, u64_MAX - 1, u64_MAX}, m \in {0, 3, u64_MAX} }

SampleFactors == {0, 1, 2, u64_MAX}

\* Calls of ResourceBounds::add, max and multiply on operands a, b, c and a
\* factor: a + b, b + a, (a + b) + c, a + (b + c), max(a, a), (a + b) * factor
\* and a * factor + b * factor, each started from a copy of its first operand.
BoundsOperations ==
    /\ pc = "parsed"
    /\ \E a, b, c \in SampleBounds, factor \in SampleFactors, overflow_checks \in BOOLEAN :
          result' = [op |-> "bounds", a |-> a, b |-> b, c |-> c, factor |-> factor,
                     overflow_checks |-> overflow_checks,
                     a_add_b |-> returned_bounds(add(a, b), overflow_checks),
                     b_add_a |-> returned_bounds(add(b, a), overflow_checks),
                     ab_add_c |-> returned_bounds(add(add(a, b), c), overflow_checks),
                     a_add_bc |-> returned_bounds(add(a, add(b, c)), overflow_checks),
                     a_max_a |-> returned_bounds(max(a, a), overflow_checks),
                     sum_times |-> returned_bounds(multiply(add(a, b), factor),
                                                   overflow_checks),
                     times_sum |-> returned_bounds(add(multiply(a, factor),
                                                       multiply(b, factor)),
                                                   overflow_checks)]
    /\ pc' = "returned"
    /\ UNCHANGED <<exprs, phase_check, termination_check, resource_bounds, call_graph>>

\* Lists of resource specs: empty, one kind, one kind declared twice, the
\* three other kinds.
SpecLists ==
    { <<>>,
      <<ResourceSpec("TimeMs", 5)>>,
      <<ResourceSpec("TimeMs", 5), ResourceSpec("TimeMs", 7)>>,
      <<ResourceSpec("MemoryBytes", 3), ResourceSpec("NetworkBytes", 2),
        ResourceSpec("StorageBytes", u64_MAX)>> }

\* Top-level forms given to extract_budget: bare budgets, programs with a
\* budget, a program whose budget position holds another expression and whose
\* forms hold a budget, a deploy function with a budget in its body, a literal.
BudgetItems ==
    { ResourceBudget(specs) : specs \in SpecLists \ {<<>>} }
    \cup { Program("p", ResourceBudget(specs), <<>>) :
             specs \in {<<>>, <<ResourceSpec("TimeMs", 5), ResourceSpec("TimeMs", 7)>>} }
    \cup { Program("q", IntLit(0), <<ResourceBudget(<<ResourceSpec("TimeMs", 9)>>)>>),
           DefunDeploy("f", <<>>, <<ResourceBudget(<<ResourceSpec("TimeMs", 9)>>)>>),
           IntLit(1) }

MaxForms == 3

BudgetPrograms ==
    UNION { [1..n -> BudgetItems] : n \in 0..MaxForms }

\* A call of ResourceAnalyzer::extract_budget(exprs).
ExtractBudget ==
    /\ pc = "parsed"
    /\ \E es \in BudgetPrograms :
          result' = [op |-> "extract_budget", exprs |-> es, value |-> extract_budget(es)]
    /\ pc' = "returned"
    /\ UNCHANGED <<exprs, phase_check, termination_check, resource_bounds, call_graph>>

\* Calls of Expr::phase and of PhaseSeparator::analyze on one deploy function,
\* whose body is a core under at most MaxDepth wrappers.
PhaseOfDeployFunction ==
    /\ pc = "parsed"
    /\ \E path \in WrapperPaths, core \in Cores :
          LET expr == DefunDeploy("f", <<"n">>, <<WrapPath(path, 1, core)>>) IN
          result' = [op |-> "phase", expr |-> expr, phase |-> phase(expr),
                     analyze |-> PhaseSeparator_analyze(expr)]
    /\ pc' = "returned"
    /\ UNCHANGED <<exprs, phase_check, termination_check, resource_bounds, call_graph>>

\* The three bound evaluators on one pair of bounds, in one build:
\* ResourceAnalyzer::eval_const_diff, TerminationChecker::loop_ranking_function
\* and TerminationChecker::are_bounds_finite.
BoundEvaluators ==
    /\ pc = "parsed"
    /\ \E start, end \in BoundExprs, overflow_checks \in BOOLEAN :
          result' = [op |-> "bound evaluators", start |-> start, end |-> end,
                     eval_const_diff |-> returned_option(eval_const_diff(start, end),
                                                         overflow_checks),
                     loop_ranking_function |->
                         returned_option(loop_ranking_function(start, end), overflow_checks),
                     are_bounds_finite |-> are_bounds_finite(start, end)]
    /\ pc' = "returned"
    /\ UNCHANGED <<exprs, phase_check, termination_check, resource_bounds, call_graph>>

NextLib ==
    \/ BoundEvaluators
    \/ LoopRankingFunction
    \/ AnalyzeExpr
    \/ BoundsOperations
    \/ ExtractBudget
    \/ PhaseOfDeployFunction

SpecLib == InitLib /\ [][NextLib]_vars

\* Programs made of Program envelopes only, one or two of them, as parse_program
\* builds them: the budget is a ResourceBudget, the forms are deploy functions
\* (looping, recursive, over the u64 range, valid) and bare forms.
EnvelopePrograms ==
    LET budgets == { ResourceBudget(<<>>),
                     ResourceBudget(<<ResourceSpec("TimeMs", 5)>>),
                     ResourceBudget(<<ResourceSpec("MemoryBytes", 3),
                                      ResourceSpec("NetworkBytes", 2)>>) }
        forms == { <<>> }
                 \cup { test_simple_program, scenario_S4, scenario_S5 }
                 \cup OverflowPrograms
                 \cup { <<While(Bool(TRUE), <<IntLit(1)>>)>>,
                        <<Include("lib"), For("x", Ident("xs"), <<IntLit(1)>>)>>,
                        <<DefunDeploy("f", <<>>, <<FunctionCall(Ident("f"), <<>>)>>)>>,
                        <<DefunDeploy("f", <<>>, <<FunctionCall(Ident("g"), <<>>)>>),
                          DefunDeploy("g", <<>>, <<FunctionCall(Ident("f"), <<>>)>>)>>,
                        <<DefunDeploy("f", <<>>, <<Include("lib")>>)>> }
        envelopes == { Program("p", b, f) : b \in budgets, f \in forms }
    IN { <<e>> : e \in envelopes } \cup { <<e1, e2>> : e1, e2 \in envelopes }

\* Programs given to the command-line front-end: the cores bare and under one
\* wrapper, as a top-level form or as the body of a deploy function, and the
\* programs of two forms.
InitCli ==
    /\ exprs \in OtherPrograms
                 \cup { <<DefunDeploy("f", <<"n">>, <<e>>)>> : e \in ShallowExprs }
                 \cup { <<e>> : e \in ShallowExprs }
                 \cup EnvelopePrograms
    /\ Unanalyzed

\* Commands::Analyze, after parse_file: ProgramAnalysis::analyze, the report,
\* and the return of Ok(()) from main (exit status 0); a panic of the
\* resource arithmetic ends the process with status 101.
AnalyzeCmd ==
    /\ pc = "parsed"
    /\ \E overflow_checks \in BOOLEAN :
          LET bounds == returned_bounds(total_bounds(exprs), overflow_checks) IN
          IF bounds = Panicked
          THEN /\ result' = [op |-> "analyze", exit |-> 101]
               /\ UNCHANGED <<phase_check, termination_check, resource_bounds, call_graph>>
          ELSE /\ phase_check' = validate_deploy_phase(exprs)
               /\ termination_check' = check_terminates(exprs)
               /\ resource_bounds' = bounds
               /\ call_graph' = build(exprs)
               /\ result' = [op |-> "analyze", exit |-> 0]
    /\ pc' = "exited"
    /\ UNCHANGED exprs

\* Commands::CheckPhases, after parse_file.
CheckPhasesCmd ==
    /\ pc = "parsed"
    /\ phase_check' = validate_deploy_phase(exprs)
    /\ result' = [op |-> "check-phases",
                  exit |-> IF IsOk(validate_deploy_phase(exprs)) THEN 0 ELSE 1]
    /\ pc' = "exited"
    /\ UNCHANGED <<exprs, termination_check, resource_bounds, call_graph>>

\* Commands::CheckTermination, after parse_file; TerminationChecker::new
\* builds the call graph.
CheckTerminationCmd ==
    /\ pc = "parsed"
    /\ call_graph' = build(exprs)
    /\ termination_check' = check_terminates(exprs)
    /\ result' = [op |-> "check-termination",
                  exit |-> IF IsOk(check_terminates(exprs)) THEN 0 ELSE 1]
    /\ pc' = "exited"
    /\ UNCHANGED <<exprs, phase_check, resource_bounds>>

\* Commands::Resources, after parse_file: the bounds of every deploy
\* function, then the program budget, if there is one.
ResourcesCmd ==
    /\ pc = "parsed"
    /\ \E overflow_checks \in BOOLEAN :
          LET ds == SelectSeq(exprs, LAMBDA e : e.kind = "DefunDeploy")
              functions == [i \in 1..Len(ds) |->
                              returned_bounds(ResourceAnalyzer_analyze(ds[i]),
                                              overflow_checks)]
          IN IF \E i \in 1..Len(ds) : functions[i] = Panicked
             THEN result' = [op |-> "resources", exit |-> 101]
             ELSE result' = [op |-> "resources", exit |-> 0, functions |-> functions,
                             budget |-> extract_budget(exprs)]
    /\ pc' = "exited"
    /\ UNCHANGED <<exprs, phase_check, termination_check, resource_bounds, call_graph>>

NextCli == AnalyzeCmd \/ CheckPhasesCmd \/ CheckTerminationCmd \/ ResourcesCmd

SpecCli == InitCli /\ [][NextCli]_vars

Spec == Init /\ [][Next]_vars

SpecGraph == InitGraph /\ [][NextGraph]_vars

(***************************************************************************)
(* Properties.                                                             *)
(***************************************************************************)
\* The sub-expressions the phase rules name as deploy-permissible containers:
\* a Let's bindings and body, an If's condition and branches, a FunctionCall's
\* function and arguments, the body of a BoundedFor or a WithCapability.
ContainerChildren(e) ==
    CASE e.kind \in {"DefunDeploy", "BoundedFor", "WithCapability"} -> Range(e.body)
      [] e.kind \in {"Let", "If", "FunctionCall"} -> Children(e)
      [] OTHER -> {}

RECURSIVE ContainerDescendants(_)
ContainerDescendants(e) ==
    ContainerChildren(e) \cup UNION {ContainerDescendants(c) : c \in ContainerChildren(e)}

\* C1: a compile-only node under the body of a top-level DefunDeploy, also
\* when nested inside a Let, an If, a FunctionCall, a BoundedFor or a
\* WithCapability, makes validate_deploy_phase return Err.
C1_CompileOnlyUnderDeployIsRejected ==
    (pc = "done" /\ \E d \in DeployFunctions(exprs) :
                        \E n \in ContainerDescendants(d) : n.kind \in CompileOnlyKinds)
        => IsErr(phase_check)

\* C9: when no compile-only node occurs at any depth under a top-level
\* DefunDeploy, validate_deploy_phase returns Ok, whatever the other
\* top-level forms are.
C9_NoCompileOnlyUnderDeployIsAccepted ==
    (pc = "done" /\ \A d \in DeployFunctions(exprs) :
                        \A n \in Descendants(d) : n.kind \notin CompileOnlyKinds)
        => phase_check = Ok("unit")

\* A deploy function with nested deploy-permissible forms is accepted beside a
\* top-level compile-time definition that holds a While.
C9_Witness ==
    /\ pc = "done"
    /\ exprs = << DefunCompile("c", <<While(Bool(TRUE), <<IntLit(1)>>)>>),
                  DefunDeploy("f", <<"n">>,
                      <<BoundedFor("k", IntLit(0), IntLit(3), <<IntLit(1)>>)>>) >>
    /\ phase_check = Ok("unit")

\* Directed cycles of a relation R, a set of pairs <<u, v>>.
Succ(R, S) == {p[2] : p \in {q \in R : q[1] \in S}}

RECURSIVE ReachFrom(_, _)
ReachFrom(R, S) == LET T == S \cup Succ(R, S) IN IF T = S THEN S ELSE ReachFrom(R, T)

HasDirectedCycle(R) == \E p \in R : p[1] \in ReachFrom(R, Succ(R, {p[1]}))

\* The names called at any depth of d: every FunctionCall with func = Ident(G).
CallsAtAnyDepth(d) ==
    {n.func.name : n \in {m \in Descendants(d) : m.kind = "FunctionCall"
                                                  /\ m.func.kind = "Ident"}}

\* F calls G, for top-level deploy functions F and G.
DeployCallRelation(es) ==
    {p \in {<<d.name, g.name>> : d, g \in DeployFunctions(es)} :
        \E d \in DeployFunctions(es) : d.name = p[1] /\ p[2] \in CallsAtAnyDepth(d)}

\* C2: if check_terminates returns Ok, no top-level DefunDeploy reaches itself
\* through a chain of calls, a call being a FunctionCall with func = Ident(G)
\* at any depth of the caller's body; and has_cycles() is false exactly when
\* there is no such recursion.
C2_OkImpliesNoDeployRecursion ==
    pc = "done" =>
        /\ IsOk(termination_check) => ~HasDirectedCycle(DeployCallRelation(exprs))
        /\ ~has_cycles(call_graph) <=> ~HasDirectedCycle(DeployCallRelation(exprs))

\* The While and For nodes at any depth under the top-level deploy functions.
LoopsUnderDeploy(es) ==
    UNION {{n \in Descendants(d) : n.kind \in {"While", "For"}} : d \in DeployFunctions(es)}

\* The BoundedFor nodes at any depth under the top-level deploy functions.
BoundedForsUnderDeploy(es) ==
    UNION {{n \in Descendants(d) : n.kind = "BoundedFor"} : d \in DeployFunctions(es)}

HasLiteralBounds(n) == n.start.kind = "Int" /\ n.end.kind = "Int"

LoopKind(n) == IF n.kind = "While" THEN "while loop" ELSE "for loop"

\* C3: with an acyclic call graph, a While or For at any depth under a deploy
\* body makes check_terminates return Err(UnboundedLoop(kind)), kind being
\* "while loop" for a While and "for loop" for a For.  Stated for the programs
\* whose BoundedFor nodes all have literal bounds, where no UnknownBounds
\* failure can come first.
C3_LoopUnderDeployIsUnbounded ==
    (/\ pc = "done"
     /\ ~has_cycles(call_graph)
     /\ LoopsUnderDeploy(exprs) # {}
     /\ \A n \in BoundedForsUnderDeploy(exprs) : HasLiteralBounds(n))
        => /\ IsErr(termination_check)
           /\ termination_check.err = "UnboundedLoop"
           /\ termination_check.payload \in {LoopKind(n) : n \in LoopsUnderDeploy(exprs)}

\* C4: if check_terminates returns Ok, every BoundedFor at any depth under a
\* deploy body has integer literals as start and end.
C4_OkImpliesLiteralBounds ==
    (pc = "done" /\ IsOk(termination_check))
        => \A n \in BoundedForsUnderDeploy(exprs) : HasLiteralBounds(n)

\* C5: analyze(If{c,t,f}) = analyze(c) + max(analyze(t), analyze(f)) in each
\* component: the bounds reported for a deploy function whose body is one If.
C5_IfIsCondPlusMaxOfBranches ==
    (/\ pc = "done"
     /\ Len(exprs) = 1
     /\ exprs[1].kind = "DefunDeploy"
     /\ Len(exprs[1].body) = 1
     /\ exprs[1].body[1].kind = "If")
        => LET e == exprs[1].body[1] IN
           resource_bounds = add(ResourceAnalyzer_analyze(e.condition),
                                 max(ResourceAnalyzer_analyze(e.then_branch),
                                     ResourceAnalyzer_analyze(e.else_branch)))

\* C6: a program reported valid that declares a ResourceBudget has summed
\* deploy bounds that fit within the declared budget.
C6_ValidImpliesWithinBudget ==
    (pc = "done" /\ is_valid /\ extract_budget(exprs).some)
        => fits_within(resource_bounds, extract_budget(exprs).v)

\* One deploy function whose body is a Let containing a BoundedFor from Int(0)
\* to an identifier naming a parameter of the function.
IsBoundedLoopOverParameter(es) ==
    /\ Len(es) = 1
    /\ es[1].kind = "DefunDeploy"
    /\ Len(es[1].body) = 1
    /\ es[1].body[1].kind = "Let"
    /\ \E n \in Range(es[1].body[1].body) :
          /\ n.kind = "BoundedFor"
          /\ n.start = IntLit(0)
          /\ n.end.kind = "Ident"
          /\ n.end.name \in Range(es[1].params)

\* C7: such a program (test_bounded_loop) is reported valid.
C7_BoundedLoopOverParameterIsValid ==
    (pc = "done" /\ IsBoundedLoopOverParameter(exprs)) => is_valid

\* The BoundedFor nodes of the program with a non-literal bound.
NonLiteralLoops(es) ==
    {n \in Range(es) \cup UNION {Descendants(e) : e \in Range(es)} :
        n.kind = "BoundedFor" /\ ~HasLiteralBounds(n)}

C10_HasCyclesIffDirectedCycle ==
    pc = "done" =>
        /\ has_cycles(call_graph) <=> HasDirectedCycle(Range(call_graph.edges))
        /\ has_cycles(call_graph) => termination_check = Err("Recursion", "")

\* Mutual recursion A -> B, B -> A is cyclic and rejected.
C10_Witness ==
    /\ pc = "done"
    /\ call_graph = [nodes |-> <<"A", "B">>, edges |-> << <<1, 2>>, <<2, 1>> >>]
    /\ has_cycles(call_graph)
    /\ termination_check = Err("Recursion", "")

\* The positions of a name in a sequence of names.
Positions(seq, x) == {k \in 1..Len(seq) : seq[k] = x}

\* C11: when has_cycles() is false, topological_order() is Some(list), every
\* node name of the graph appears in the list exactly once and the caller of
\* every recorded edge comes before its callee, parallel edges included; when
\* has_cycles() is true it is None.
C11_TopologicalOrderIsValid ==
    (pc = "printed" /\ result.op = "call-graph") =>
        IF has_cycles(call_graph)
        THEN result.order = None
        ELSE /\ result.order.some
             /\ Len(result.order.v) = Len(call_graph.nodes)
             /\ \A i \in 1..Len(call_graph.nodes) :
                    Cardinality(Positions(result.order.v, call_graph.nodes[i])) = 1
             /\ \A k \in 1..Len(call_graph.edges) :
                    \A pu \in Positions(result.order.v, call_graph.nodes[call_graph.edges[k][1]]),
                       pv \in Positions(result.order.v, call_graph.nodes[call_graph.edges[k][2]]) :
                        pu < pv

\* A calls B twice and the library function add: two parallel edges A -> B,
\* and A is ordered before B.
C11_Witness ==
    /\ pc = "printed"
    /\ result.op = "call-graph"
    /\ \E j, k \in 1..Len(call_graph.edges) :
          j # k /\ call_graph.edges[j] = call_graph.edges[k]
    /\ ~has_cycles(call_graph)
    /\ result.order.some
    /\ Len(result.order.v) = 3

\* The sub-expressions the termination check walks, left to right.
WalkedChildren(e) ==
    CASE e.kind \in {"DefunDeploy", "BoundedFor", "WithCapability"} -> e.body
      [] e.kind = "Let" -> [i \in 1..Len(e.bindings) |-> e.bindings[i][2]] \o e.body
      [] e.kind = "If" -> <<e.condition, e.then_branch, e.else_branch>>
      [] e.kind = "FunctionCall" -> <<e.func>> \o e.args
      [] OTHER -> <<>>

\* The loop failures of the walked nodes, a node before its sub-expressions
\* and the sub-expressions left to right.
RECURSIVE LoopFailures(_), LoopFailuresOfSeq(_, _)
LoopFailuresOfSeq(es, i) ==
    IF i > Len(es) THEN <<>> ELSE LoopFailures(es[i]) \o LoopFailuresOfSeq(es, i + 1)

LoopFailures(e) ==
    (CASE e.kind \in {"While", "For"} -> <<Err("UnboundedLoop", LoopKind(e))>>
       [] e.kind = "BoundedFor" /\ ~HasLiteralBounds(e) ->
             <<Err("UnknownBounds", "bounded-for " \o e.var)>>
       [] OTHER -> <<>>)
    \o LoopFailuresOfSeq(WalkedChildren(e), 1)

\* C12: the termination obligations are checked in order and the first failure
\* wins: a cyclic call graph gives Err(Recursion) whatever loops the program
\* holds; otherwise the loop failure met first, in source order of the
\* top-level forms and left to right, outer to inner within a form, is the
\* one returned.
C12_FirstFailureWins ==
    pc = "done" =>
        LET failures == LoopFailuresOfSeq(exprs, 1) IN
        termination_check =
            IF HasDirectedCycle(Range(call_graph.edges)) THEN Err("Recursion", "")
            ELSE IF failures = <<>> THEN Ok("unit")
            ELSE failures[1]

\* A While in the first function and a recursive second function: Recursion.
C12_Witness ==
    /\ pc = "done"
    /\ exprs = << DefunDeploy("g", <<"n">>, <<While(Bool(TRUE), <<IntLit(1)>>)>>),
                  DefunDeploy("f", <<"n">>, <<FunctionCall(Ident("f"), <<>>)>>) >>
    /\ termination_check = Err("Recursion", "")

\* C13: for integer literals s and e, loop_ranking_function(Int(s), Int(e))
\* returns Some(max(0, e - s)), the exact difference also when e - s exceeds
\* the i64 range; for a non-literal start or end it returns None.
C13_RankingIsExactDifference ==
    (pc # "parsed" /\ result.op = "loop_ranking_function") =>
        IF result.start.kind = "Int" /\ result.end.kind = "Int"
        THEN LET d == result.end.val - result.start.val IN
             result.value = Some(IF d > 0 THEN d ELSE 0)
        ELSE result.value = None

\* The four components of a ResourceBounds.
Components == {"time_ms", "memory_bytes", "network_bytes", "storage_bytes"}

\* Exact sums and products of naturals: a result above u64_MAX is reported as
\* TooBig, which no u64 equals.
TooBig == u64_MAX + 1
ExactAdd(x, y) == IF x = TooBig \/ y = TooBig \/ x + y > u64_MAX THEN TooBig ELSE x + y
ExactMul(x, y) ==
    IF x = 0 \/ y = 0 THEN 0
    ELSE IF x = TooBig \/ y = TooBig \/ y > u64_MAX \div x THEN TooBig
    ELSE x * y

\* The exact sum of component c of analyze over the elements of es.
RECURSIVE ExactSum(_, _, _)
ExactSum(es, i, c) ==
    IF i > Len(es) THEN 0
    ELSE ExactAdd(ResourceAnalyzer_analyze(es[i])[c], ExactSum(es, i + 1, c))

\* The iteration count of a loop: e - s for literals s <= e, 0 for literals
\* e < s, 100 when a bound is not a literal.
Iterations(loop) ==
    IF HasLiteralBounds(loop)
    THEN IF loop.end.val >= loop.start.val THEN loop.end.val - loop.start.val ELSE 0
    ELSE 100

\* C14: analyze of a BoundedFor is the sum of analyze over its body multiplied
\* by e - s in each component when the bounds are literals s <= e, by 100 when
\* a bound is not a literal, and all zero when e < s.
C14_LoopIsBodyTimesIterations ==
    (pc # "parsed" /\ result.op = "analyze" /\ result.expr.kind = "BoundedFor") =>
        /\ result.value # Panicked
        /\ \A c \in Components :
              result.value[c] = ExactMul(ExactSum(result.expr.body, 1, c),
                                         Iterations(result.expr))

\* C15: for every direct sub-expression e of a parent p other than an If,
\* analyze(e) <= analyze(p) in each of the four components.
C15_BoundsGrowFromChildToParent ==
    (pc # "parsed" /\ result.op = "analyze" /\ result.expr.kind # "If") =>
        /\ result.value # Panicked
        /\ \A e \in Children(result.expr) : \A c \in Components :
              ResourceAnalyzer_analyze(e)[c] <= result.value[c]

\* The cost-table entry a call adds to time_ms: that of the name when func is
\* an identifier of the table, else 0.
CallCost(func) ==
    IF func.kind = "Ident" /\ func.name \in DOMAIN costs THEN costs[func.name] ELSE 0

\* The forms whose bound is composed from those of their sub-expressions by
\* sums and products.
ComposedKinds == {"BoundedFor", "Let", "FunctionCall", "WithCapability", "DefunDeploy"}

\* Component c of the bound the composition rule of e gives, in exact
\* arithmetic, from the bounds of the direct sub-expressions of e.
ExactRule(e, c) ==
    CASE e.kind = "BoundedFor" -> ExactMul(ExactSum(e.body, 1, c), Iterations(e))
      [] e.kind = "Let" ->
            ExactAdd(ExactSum([i \in 1..Len(e.bindings) |-> e.bindings[i][2]], 1, c),
                     ExactSum(e.body, 1, c))
      [] e.kind = "FunctionCall" ->
            ExactAdd(ExactSum(e.args, 1, c),
                     IF c = "time_ms" THEN 10 + CallCost(e.func) ELSE 0)
      [] e.kind \in {"WithCapability", "DefunDeploy"} -> ExactSum(e.body, 1, c)

\* C16: analyze returns a ResourceBounds for every expression without
\* aborting, and each component is the value of the composition rule in
\* unbounded arithmetic: sums and loop multiplications never wrap around.
C16_AnalyzeIsTotalAndExact ==
    (pc # "parsed" /\ result.op = "analyze") =>
        /\ result.value # Panicked
        /\ result.expr.kind \in ComposedKinds =>
              \A c \in Components : result.value[c] = ExactRule(result.expr, c)

\* C17: analyze(SleepMs(Int(n))) has time_ms = n for every integer literal n,
\* negative ones included, and analyze(SleepMs(e)) has time_ms = 1000 for a
\* non-literal e; the other components are zero.
C17_SleepIsItsLiteral ==
    (pc # "parsed" /\ result.op = "analyze" /\ result.expr.kind = "SleepMs") =>
        /\ result.value # Panicked
        /\ result.value.time_ms =
              IF result.expr.arg.kind = "Int" THEN result.expr.arg.val ELSE 1000
        /\ \A c \in Components \ {"time_ms"} : result.value[c] = 0

\* C18: analyze of FunctionCall{func, args} has time_ms = 10 + the sum of
\* time_ms of analyze over args + the cost-table entry of the name when func
\* is an identifier of the table; func itself contributes nothing and the
\* other three components are the sums over args.
C18_CallIsOverheadPlusArgsPlusCost ==
    (pc # "parsed" /\ result.op = "analyze" /\ result.expr.kind = "FunctionCall") =>
        /\ result.value # Panicked
        /\ result.value.time_ms =
              ExactAdd(ExactAdd(10, ExactSum(result.expr.args, 1, "time_ms")),
                       CallCost(result.expr.func))
        /\ \A c \in Components \ {"time_ms"} :
              result.value[c] = ExactSum(result.expr.args, 1, c)

\* C19: add is associative and commutative, max of a value with itself leaves
\* it unchanged, and multiplying a sum by a factor equals the sum of the
\* operands each multiplied by the factor, for all operands.
C19_BoundsAlgebra ==
    (pc # "parsed" /\ result.op = "bounds") =>
        /\ result.a_add_b = result.b_add_a
        /\ result.ab_add_c = result.a_add_bc
        /\ result.a_max_a = result.a
        /\ result.sum_times = result.times_sum

\* Positions of the top-level forms that declare a budget: a ResourceBudget
\* form, or a Program whose budget is a ResourceBudget.
BudgetForms(es) ==
    { i \in DOMAIN es :
        \/ es[i].kind = "ResourceBudget"
        \/ es[i].kind = "Program" /\ es[i].budget.kind = "ResourceBudget" }

SpecsOf(e) == IF e.kind = "Program" THEN e.budget.specs ELSE e.specs

\* The amounts a list of specs declares for a kind.
Declared(specs, rkind) ==
    { specs[j].amount : j \in { j \in DOMAIN specs : specs[j].rkind = rkind } }

ComponentOfKind ==
    [TimeMs |-> "time_ms", MemoryBytes |-> "memory_bytes",
     NetworkBytes |-> "network_bytes", StorageBytes |-> "storage_bytes"]

\* C20: extract_budget returns Some(b) exactly when the top-level sequence
\* has a ResourceBudget form or a Program whose budget is a ResourceBudget,
\* and None otherwise; b comes from the first such form in source order, each
\* component being an amount that form declares for its kind, and 0 for a
\* kind the form does not declare.
C20_ExtractBudget ==
    (pc # "parsed" /\ result.op = "extract_budget") =>
        LET es == result.exprs
            forms == BudgetForms(es)
        IN  /\ result.value.some <=> forms # {}
            /\ forms # {} =>
                 LET first == CHOOSE i \in forms : \A j \in forms : i <= j
                     specs == SpecsOf(es[first])
                 IN  \A rkind \in DOMAIN ComponentOfKind :
                        result.value.v[ComponentOfKind[rkind]] \in
                            (IF Declared(specs, rkind) = {} THEN {0}
                             ELSE Declared(specs, rkind))

\* extract_budget has returned the budget of a Program that follows a form
\* without a budget and precedes a bare budget of other amounts.
C20_Witness ==
    /\ pc = "returned"
    /\ result.op = "extract_budget"
    /\ result.exprs = << Program("q", IntLit(0), <<ResourceBudget(<<ResourceSpec("TimeMs", 9)>>)>>),
                         Program("p", ResourceBudget(<<ResourceSpec("TimeMs", 5),
                                                       ResourceSpec("TimeMs", 7)>>), <<>>),
                         ResourceBudget(<<ResourceSpec("MemoryBytes", 3),
                                          ResourceSpec("NetworkBytes", 2),
                                          ResourceSpec("StorageBytes", u64_MAX)>>) >>
    /\ result.value = Some([ResourceBounds_new EXCEPT !.time_ms = 7])

\* C21: in every ProgramAnalysis, is_valid() is true exactly when the phase
\* verdict and the termination verdict of the program are both Ok, and the
\* four fields hold the phase verdict, the termination verdict, the summed
\* bounds of the deploy functions and the call graph of the program, each
\* whatever the other stages returned.
C21_IsValidIffBothOk ==
    pc = "done" =>
        /\ is_valid <=> (IsOk(validate_deploy_phase(exprs)) /\ IsOk(check_terminates(exprs)))
        /\ phase_check = validate_deploy_phase(exprs)
        /\ termination_check = check_terminates(exprs)
        /\ resource_bounds = returned_bounds(total_bounds(exprs), FALSE)
        /\ call_graph = build(exprs)

\* A ProgramAnalysis whose phase check passed and whose termination check
\* failed, with non-zero bounds and a non-empty call graph beside the verdicts.
C21_Witness ==
    /\ pc = "done"
    /\ IsOk(phase_check)
    /\ IsErr(termination_check)
    /\ ~is_valid
    /\ resource_bounds.time_ms > 0
    /\ function_count(call_graph) > 0

\* One deploy function whose body is one call to an identifier other than the
\* function's own name, with literals or identifiers as arguments.
IsSingleCallProgram(es) ==
    /\ Len(es) = 1
    /\ es[1].kind = "DefunDeploy"
    /\ Len(es[1].body) = 1
    /\ es[1].body[1].kind = "FunctionCall"
    /\ es[1].body[1].func.kind = "Ident"
    /\ es[1].body[1].func.name # es[1].name
    /\ \A a \in Range(es[1].body[1].args) : a.kind \in {"Ident", "Int"}

\* C22: for a single deploy function whose body makes one call to an
\* identifier that is not a deploy function (add calling +), the call graph
\* has exactly 1 node and 1 edge and no cycle, and is_valid is true.
C22_SingleCallGraphShape ==
    (pc = "done" /\ IsSingleCallProgram(exprs)) =>
        /\ function_count(call_graph) = 1
        /\ Len(call_graph.edges) = 1
        /\ ~has_cycles(call_graph)
        /\ is_valid

\* C23: check-phases exits 1 exactly when validate_deploy_phase returns Err,
\* check-termination exits 1 exactly when check_terminates returns Err, and
\* analyze exits 0 on every parsed input, whatever the two verdicts are.
C23_ExitStatusPerCommand ==
    pc = "exited" =>
        /\ result.op = "check-phases" =>
              (result.exit = 1 <=> IsErr(validate_deploy_phase(exprs)))
        /\ result.op = "check-termination" =>
              (result.exit = 1 <=> IsErr(check_terminates(exprs)))
        /\ result.op = "analyze" => result.exit = 0

RecordedCallees(es) ==
    UNION { Range(extract_function_calls(d.body)) : d \in DeployFunctions(es) }

\* C25: the nodes of the built call graph are exactly the distinct names of
\* the top-level DefunDeploy forms and the distinct identifiers recorded as
\* callees; function_count() is the size of that set; a callee that names no
\* top-level DefunDeploy has no outgoing edge.
C25_NodesAreNamesAndCallees ==
    pc \in {"done", "printed"} =>
        LET names == {d.name : d \in DeployFunctions(exprs)}
            nodes == names \cup RecordedCallees(exprs)
        IN  /\ Range(call_graph.nodes) = nodes
            /\ function_count(call_graph) = Cardinality(nodes)
            /\ \A k \in 1..Len(call_graph.edges) :
                  call_graph.nodes[call_graph.edges[k][1]] \in names

\* Two deploy functions of the same name, the callee add recorded more than
\* once: two nodes, and no edge leaving add.
C25_Witness ==
    /\ pc = "done"
    /\ Len(exprs) = 2
    /\ exprs[1].name = exprs[2].name
    /\ Len(SelectSeq(extract_function_calls(exprs[1].body), LAMBDA c : c = "add")) = 2
    /\ call_graph.nodes = <<"A", "add">>
    /\ Len(call_graph.edges) >= 3

\* The forms at or under d whose body has a compile-only node as a direct
\* element, and the context that names such a form.
FormsWithCompileOnlyElement(d) ==
    { f \in {d} \cup Descendants(d) :
        /\ f.kind \in {"DefunDeploy", "BoundedFor", "WithCapability"}
        /\ \E i \in 1..Len(f.body) : f.body[i].kind \in CompileOnlyKinds }

ContextOf(f) ==
    CASE f.kind = "DefunDeploy" -> "in function " \o f.name
      [] f.kind = "BoundedFor" -> "in bounded-for loop"
      [] f.kind = "WithCapability" -> "in with-capability block"

\* C26: when validate_deploy_phase fails, the error is the one of the first
\* failing top-level DefunDeploy in source order, and it is CompileInDeploy
\* with the context of a function, bounded-for loop or with-capability block
\* that has a compile-only node as a direct element of its body.
C26_FirstFailingFunctionAndContext ==
    (pc = "done" /\ IsErr(phase_check)) =>
        LET ds == SelectSeq(exprs, LAMBDA e : e.kind = "DefunDeploy")
            failing == {i \in 1..Len(ds) : IsErr(PhaseSeparator_analyze(ds[i]))}
            first == CHOOSE i \in failing : \A j \in failing : i <= j
        IN  /\ failing # {}
            /\ phase_check = PhaseSeparator_analyze(ds[first])
            /\ phase_check.err = "CompileInDeploy"
            /\ phase_check.payload \in
                  {ContextOf(f) : f \in FormsWithCompileOnlyElement(ds[first])}

\* Two failing deploy functions: the error names the first one.
C26_Witness ==
    /\ pc = "done"
    /\ Len(exprs) = 2
    /\ exprs[1].kind = "DefunDeploy" /\ exprs[1].name = "g"
    /\ exprs[2].kind = "DefunDeploy" /\ exprs[2].name = "f"
    /\ IsErr(PhaseSeparator_analyze(exprs[1]))
    /\ IsErr(PhaseSeparator_analyze(exprs[2]))
    /\ phase_check = Err("CompileInDeploy", "in function g")

\* C27: phase() of a DefunDeploy is Mixed whenever a compile-only node occurs
\* at any depth of its body through non-function sub-expressions, is Deploy
\* whenever no compile-only node occurs under it, and is Deploy exactly when
\* PhaseSeparator::analyze of the same node returns Ok.
C27_PhaseAgreesWithSeparator ==
    (pc # "parsed" /\ result.op = "phase") =>
        /\ (\E n \in ContainerDescendants(result.expr) : n.kind \in CompileOnlyKinds)
              => result.phase = "Mixed"
        /\ (\A n \in Descendants(result.expr) : n.kind \notin CompileOnlyKinds)
              => result.phase = "Deploy"
        /\ result.phase = "Deploy" <=> IsOk(result.analyze)

\* A top-level sequence whose only forms are Program envelopes.
OnlyEnvelopes(es) == es # <<>> /\ \A i \in 1..Len(es) : es[i].kind = "Program"

\* C28: for a top-level sequence of Program envelopes only, whatever their
\* forms contain, validate_deploy_phase and check_terminates return Ok, the
\* call graph has no nodes and the summed bounds are all zero, while
\* extract_budget returns the budget of the first envelope.
C28_EnvelopesAreNotAnalysed ==
    (pc = "exited" /\ OnlyEnvelopes(exprs)) =>
        /\ result.op = "analyze" =>
              /\ result.exit = 0
              /\ phase_check = Ok("unit")
              /\ termination_check = Ok("unit")
              /\ function_count(call_graph) = 0
              /\ resource_bounds = ResourceBounds_new
        /\ result.op = "check-phases" => result.exit = 0
        /\ result.op = "check-termination" => result.exit = 0
        /\ result.op = "resources" =>
              /\ result.exit = 0
              /\ result.functions = <<>>
              /\ result.budget.some
              /\ \A rkind \in DOMAIN ComponentOfKind :
                    result.budget.v[ComponentOfKind[rkind]] \in
                        (IF Declared(exprs[1].budget.specs, rkind) = {} THEN {0}
                         ELSE Declared(exprs[1].budget.specs, rkind))

\* The analysis of an envelope that holds two mutually recursive deploy
\* functions, followed by an envelope that holds a While loop: all is Ok.
C28_Witness ==
    /\ pc = "exited"
    /\ result.op = "analyze"
    /\ Len(exprs) = 2
    /\ OnlyEnvelopes(exprs)
    /\ Len(exprs[1].forms) = 2
    /\ HasDirectedCycle(DeployCallRelation(exprs[1].forms))
    /\ \E f \in Range(exprs[2].forms) : f.kind = "While"
    /\ exprs[1].budget.specs # <<>>
    /\ is_valid
    /\ function_count(call_graph) = 0

\* The positions of the top-level forms that are a While or a For.
TopLevelLoops(es) == {i \in DOMAIN es : es[i].kind \in {"While", "For"}}

\* A BoundedFor with literal bounds and no loop under its body.
IsLiteralLoopFreeBoundedFor(e) ==
    /\ e.kind = "BoundedFor"
    /\ HasLiteralBounds(e)
    /\ \A n \in Descendants(e) : n.kind \notin {"While", "For", "BoundedFor"}

\* The nodes at or under e that are not inside a DefunCompile or a Macro.
RECURSIVE NodesOutsideCompileBodies(_)
NodesOutsideCompileBodies(e) ==
    IF e.kind \in {"DefunCompile", "Macro"} THEN {}
    ELSE {e} \cup UNION {NodesOutsideCompileBodies(c) : c \in Children(e)}

\* A program of top-level literal loop-free BoundedFor forms is accepted.
TopLevelBoundedForIsOk ==
    (exprs # <<>> /\ \A i \in DOMAIN exprs : IsLiteralLoopFreeBoundedFor(exprs[i]))
        => termination_check = Ok("unit")

\* A While or For inside the body of a DefunCompile or Macro is no failure.
LoopsInCompileBodiesAreIgnored ==
    /\ (exprs # <<>> /\ \A i \in DOMAIN exprs : exprs[i].kind \in {"DefunCompile", "Macro"})
          => termination_check = Ok("unit")
    /\ (IsErr(termination_check) /\ termination_check.err = "UnboundedLoop")
          => \E i \in DOMAIN exprs : \E n \in NodesOutsideCompileBodies(exprs[i]) :
                n.kind \in {"While", "For"}

\* C29 as stated: a While or For that is itself a top-level form makes
\* check_terminates return Err(UnboundedLoop); a top-level BoundedFor with
\* literal bounds and a loop-free body makes it return Ok; a While or For in
\* the body of a DefunCompile or Macro never causes a failure.
C29_TopLevelLoopIsUnboundedLoop ==
    pc = "done" =>
        /\ TopLevelLoops(exprs) # {} =>
              (IsErr(termination_check) /\ termination_check.err = "UnboundedLoop")
        /\ TopLevelBoundedForIsOk
        /\ LoopsInCompileBodiesAreIgnored

\* C29, amended: a While or For that is itself a top-level form makes
\* check_terminates return Err, and that error is UnboundedLoop with the
\* form's kind when the call graph is acyclic and no earlier top-level form
\* fails; a top-level BoundedFor with literal bounds and a loop-free body is
\* accepted; a While or For in the body of a DefunCompile or Macro never
\* causes a failure.
C29_TopLevelLoopFails ==
    pc = "done" =>
        /\ TopLevelLoops(exprs) # {} => IsErr(termination_check)
        /\ \A i \in TopLevelLoops(exprs) :
              (/\ ~HasDirectedCycle(Range(call_graph.edges))
               /\ \A j \in 1..(i - 1) : LoopFailures(exprs[j]) = <<>>)
                  => termination_check = Err("UnboundedLoop", LoopKind(exprs[i]))
        /\ TopLevelBoundedForIsOk
        /\ LoopsInCompileBodiesAreIgnored

\* A top-level While beside a deploy function without loops is reported.
C29_Witness ==
    /\ pc = "done"
    /\ exprs = << While(Bool(TRUE), <<IntLit(1)>>),
                  DefunDeploy("f", <<"n">>, <<IntLit(1)>>) >>
    /\ termination_check = Err("UnboundedLoop", "while loop")

\* The call returned Some(v).
IsSome(r) == r # Panicked /\ r.some

\* C30: for every pair (start, end), eval_const_diff equals
\* loop_ranking_function whenever the latter is Some, both are None on the
\* same inputs, and are_bounds_finite is true exactly when they are Some.
C30_BoundEvaluatorsAgree ==
    (pc # "parsed" /\ result.op = "bound evaluators") =>
        /\ IsSome(result.loop_ranking_function)
              => result.eval_const_diff = result.loop_ranking_function
        /\ result.eval_const_diff = None <=> result.loop_ranking_function = None
        /\ result.are_bounds_finite <=>
              (IsSome(result.eval_const_diff) /\ IsSome(result.loop_ranking_function))

====
